---- MODULE Spec2Model ----
(***************************************************************************)
(* Model of update_rating.py: the daily chess-rating tracker.              *)
(*                                                                         *)
(* One run of main() is: fetch the rating, clean the history file of old   *)
(* entries, upsert today's rating, sort, prune, cap, save, render the      *)
(* chart, write the README.                                                *)
(*                                                                         *)
(* Conventions of the model                                                *)
(*   - a clock reading is a day ordinal (an integer, day 0 = 2023-11-01);  *)
(*     strftime turns it into the date string, modelled as the triple      *)
(*     <<year, month, day>> whose lexicographic order is the order of the  *)
(*     zero-padded 'YYYY-MM-DD' strings the code compares;                 *)
(*   - an optional value (None, an absent file) is a sequence of length    *)
(*     0 or 1;                                                             *)
(*   - a history is a sequence of entries                                  *)
(*     [date, rating, updated].                                            *)
(***************************************************************************)
EXTENDS Integers, Sequences, FiniteSets, TLC

\* ---------------------------------------------------------------------
\* Program constants
\* ---------------------------------------------------------------------
RETENTION_DAYS == 30
MAX_ENTRIES == 30
width == 1000
height == 500
margin == 60
PAD == 50
GRID_LINES == 6

\* ---------------------------------------------------------------------
\* Optional values
\* ---------------------------------------------------------------------
None == <<>>
Some(v) == <<v>>
IsNone(o) == Len(o) = 0
Val(o) == o[1]

\* ---------------------------------------------------------------------
\* Calendar: datetime -> 'YYYY-MM-DD'
\* ---------------------------------------------------------------------
IsLeap(y) == (y % 4 = 0) /\ ((y % 100 # 0) \/ (y % 400 = 0))

DaysInMonth(y, m) ==
    IF m = 2 THEN (IF IsLeap(y) THEN 29 ELSE 28)
    ELSE IF m \in {4, 6, 9, 11} THEN 30 ELSE 31

RECURSIVE DateFrom(_, _, _)
DateFrom(y, m, n) ==
    IF n < DaysInMonth(y, m) THEN <<y, m, n + 1>>
    ELSE IF m = 12 THEN DateFrom(y + 1, 1, n - DaysInMonth(y, m))
    ELSE DateFrom(y, m + 1, n - DaysInMonth(y, m))

\* datetime.strftime('%Y-%m-%d') of a clock reading on day ordinal t
\* (day ordinal 0 is 2023-11-01)
strftime(t) == DateFrom(2023, 11, t)

\* mutants of cutoff_str: a window one day longer; the cutoff taken 30 days
\* ahead instead of 30 days back
cutoff_str_31(t) == strftime(t - RETENTION_DAYS - 1)
cutoff_str_ahead(t) == strftime(t + RETENTION_DAYS)

\* (datetime.now() - timedelta(days=30)).strftime('%Y-%m-%d')
cutoff_str(t) == strftime(t - RETENTION_DAYS)

\* Python's str comparison of two 'YYYY-MM-DD' strings
StrLess(a, b) ==
    \/ a[1] < b[1]
    \/ a[1] = b[1] /\ a[2] < b[2]
    \/ a[1] = b[1] /\ a[2] = b[2] /\ a[3] < b[3]

StrGeq(a, b) == ~StrLess(a, b)

\* ---------------------------------------------------------------------
\* History entries
\* ---------------------------------------------------------------------
Entry(d, r, u) == [date |-> d, rating |-> r, updated |-> u]

\* list.sort(key=lambda x: x['date']): a stable sort by date string
RECURSIVE InsertByDate(_, _)
InsertByDate(s, e) ==
    IF s = <<>> THEN <<e>>
    ELSE IF StrLess(e.date, s[Len(s)].date)
         THEN Append(InsertByDate(SubSeq(s, 1, Len(s) - 1), e), s[Len(s)])
         ELSE Append(s, e)

\* mutant of SortByDate: the sort left out
Unsorted(s) == s

RECURSIVE SortByDate(_)
SortByDate(s) ==
    IF s = <<>> THEN <<>>
    ELSE InsertByDate(SortByDate(SubSeq(s, 1, Len(s) - 1)), s[Len(s)])

\* [entry for entry in history if entry['date'] >= cutoff_str]
KeepRecent(h, cut) == SelectSeq(h, LAMBDA e : StrGeq(e.date, cut))

\* mutant of CapLast: history[:30], the oldest 30 kept
CapFirst(h) == IF Len(h) > MAX_ENTRIES THEN SubSeq(h, 1, MAX_ENTRIES) ELSE h

\* history[-30:] when len(history) > 30
CapLast(h) ==
    IF Len(h) > MAX_ENTRIES THEN SubSeq(h, Len(h) - MAX_ENTRIES + 1, Len(h)) ELSE h

\* mutants of Upsert: always append; leave an entry found for today as it is
UpsertAppend(h, today, r, u) == Append(h, Entry(today, r, u))
UpsertKeepFirst(h, today, r, u) ==
    IF \E i \in 1..Len(h) : h[i].date = today THEN h ELSE Append(h, Entry(today, r, u))

\* the for/else loop of add_today_rating: overwrite the first entry dated
\* today, or append a new entry
Upsert(h, today, r, u) ==
    LET hits == {i \in 1..Len(h) : h[i].date = today}
    IN IF hits # {}
       THEN LET i == CHOOSE k \in hits : \A j \in hits : k <= j
            IN [h EXCEPT ![i] = [@ EXCEPT !.rating = r, !.updated = u]]
       ELSE Append(h, Entry(today, r, u))

\* add_today_rating(history, rating), with its three clock readings:
\* tToday (line 37), tUpd (line 42/48), tCut (line 53)
add_today_rating(h, rating, tToday, tUpd, tCut) ==
    IF IsNone(rating) THEN h
    ELSE CapLast(KeepRecent(SortByDate(Upsert(h, strftime(tToday), Val(rating), tUpd)),
                            cutoff_str(tCut)))

\* ---------------------------------------------------------------------
\* Fetcher
\* ---------------------------------------------------------------------
\* What one HTTP GET can produce: urlopen raising, a body json.loads
\* rejects, a payload without 'chess_rapid', without 'last', without
\* 'rating' (a KeyError, caught), or a full payload.
ResponseKinds ==
    {"network_error", "bad_json", "no_chess_rapid", "no_last", "no_rating", "ok"}

Response(k, r) == [kind |-> k, rating |-> r]

\* mutant of fetch_current_rating: a missing 'rating' read with a default
fetch_current_rating_default(resp) ==
    IF resp.kind \in {"ok", "no_rating"} THEN Some(resp.rating) ELSE None

fetch_current_rating(resp) ==
    IF resp.kind = "ok" THEN Some(resp.rating) ELSE None

\* lines 19-20: the outcomes that raise inside the try are caught and
\* reported with print("Error fetching rating: ..."); a payload without
\* 'chess_rapid' or without 'last' fails the test of line 17 silently
RaisingKinds == {"network_error", "bad_json", "no_rating"}

fetch_prints(resp) ==
    IF resp.kind \in RaisingKinds THEN <<"error_fetching">> ELSE <<>>

\* ---------------------------------------------------------------------
\* History store
\* ---------------------------------------------------------------------
\* load_history(): the array in the file, [] when the file is absent
load_history(file) == IF IsNone(file) THEN <<>> ELSE Val(file)

\* save_history(history)
save_history(h) == Some(h)

\* mutant of cleanup_old_data: the cleaned history saved even when nothing
\* was removed
cleanup_always_saves(file, t) ==
    IF IsNone(file)
    THEN [ret |-> <<>>, file |-> file, wrote |-> FALSE]
    ELSE [ret |-> KeepRecent(Val(file), cutoff_str(t)),
          file |-> Some(KeepRecent(Val(file), cutoff_str(t))), wrote |-> TRUE]

\* cleanup_old_data() at clock reading t: the history returned, the file
\* afterwards, and whether the file was written
cleanup_old_data(file, t) ==
    IF IsNone(file)
    THEN [ret |-> load_history(file), file |-> file, wrote |-> FALSE]
    ELSE LET h == load_history(file)
             cleaned == KeepRecent(h, cutoff_str(t))
         IN IF Len(cleaned) # Len(h)
            THEN [ret |-> cleaned, file |-> save_history(cleaned), wrote |-> TRUE]
            ELSE [ret |-> load_history(file), file |-> file, wrote |-> FALSE]

\* ---------------------------------------------------------------------
\* Chart renderer
\* ---------------------------------------------------------------------
\* min(ratings), max(ratings)
SeqMin(s) == CHOOSE x \in {s[i] : i \in 1..Len(s)} : \A i \in 1..Len(s) : x <= s[i]
SeqMax(s) == CHOOSE x \in {s[i] : i \in 1..Len(s)} : \A i \in 1..Len(s) : x >= s[i]

RatingsOf(h) == [i \in 1..Len(h) |-> h[i].rating]

\* mutant of min_rating: the padding below the lowest rating left out
min_rating_unpadded(ratings) == SeqMin(ratings)

min_rating(ratings) == SeqMin(ratings) - PAD
max_rating(ratings) == SeqMax(ratings) + PAD
rating_range(ratings) == max_rating(ratings) - min_rating(ratings)

\* y of a rating: margin + ((max_rating - rating) * (height - 2*margin) // rating_range)
PointY(maxr, range, r) ==
    margin + (((maxr - r) * (height - 2 * margin)) \div range)

\* x of the i-th point (i from 0) of n > 1 points
PointX(i, n) == margin + ((i * (width - 2 * margin)) \div (n - 1))

\* the six grid lines: y and the rating label
GridLines(maxr, range) ==
    [k \in 1..GRID_LINES |->
        [y |-> margin + (((k - 1) * (height - 2 * margin)) \div 5),
         label |-> maxr - (((k - 1) * range) \div 5)]]

\* the circles drawn: one per entry, or a single centred one
Points(ratings) ==
    LET maxr == max_rating(ratings)
        range == rating_range(ratings)
    IN IF Len(ratings) > 1
       THEN [i \in 1..Len(ratings) |->
               [x |-> PointX(i - 1, Len(ratings)), y |-> PointY(maxr, range, ratings[i])]]
       ELSE <<[x |-> width \div 2, y |-> PointY(maxr, range, ratings[1])]>>

\* the text block at the bottom right
Stats(ratings) ==
    LET current == ratings[Len(ratings)]
    IN IF Len(ratings) > 1
       THEN LET change == current - ratings[1]
            IN [current |-> current, high |-> Some(SeqMax(ratings)),
                low |-> Some(SeqMin(ratings)), change |-> Some(change),
                gain |-> Some(change >= 0)]
       ELSE [current |-> current, high |-> None, low |-> None, change |-> None,
             gain |-> None]

\* create_svg_graph(history): the return value and the image written (if any)
create_svg_graph(h) ==
    IF Len(h) < 1 THEN [ok |-> FALSE, svg |-> None]
    ELSE LET ratings == RatingsOf(h)
         IN [ok |-> TRUE,
             svg |-> Some([tracked |-> Len(h),
                           grid |-> GridLines(max_rating(ratings), rating_range(ratings)),
                           points |-> Points(ratings),
                           stats |-> Stats(ratings)])]

\* ---------------------------------------------------------------------
\* Report writer
\* ---------------------------------------------------------------------
\* mutant of update_readme: the rating passed in shown instead of the last
\* entry's
update_readme_fetched(rating, h, t) ==
    IF h = <<>> THEN None
    ELSE Some([current |-> Val(rating),
               days_tracked |-> Len(h),
               last_updated |-> strftime(t)])

\* update_readme(rating, history) at clock reading t: the document
\* written, None when nothing is written
update_readme(rating, h, t) ==
    IF h = <<>> THEN None
    ELSE Some([current |-> h[Len(h)].rating,
               days_tracked |-> Len(h),
               last_updated |-> strftime(t)])

\* ---------------------------------------------------------------------
\* Bounds of the model
\* ---------------------------------------------------------------------
InitDay == 71          \* the day of the first run from an arbitrary file (2024-01-11)
MaxTicks == 1          \* midnights that may pass after InitDay
MaxRuns == 2           \* runs of main from an arbitrary file
MaxSmall == 2          \* length of the short arbitrary histories
AcrossDays == 31       \* days before InitDay at which the runs from an absent file start
MaxDeviations == 2     \* departures from one nominal run a day, in the runs from an absent file

MaxDay == InitDay + MaxTicks
AcrossStart == InitDay - AcrossDays

\* the days on which the runs from an absent file may depart from the
\* nominal schedule: an early day, and the days on which pruning acts
DeviationDays == {AcrossStart + 1} \cup (AcrossStart + RETENTION_DAYS)..MaxDay

\* ratings the API may report
Ratings == {1480, 1525}
\* ratings found in files and passed to the renderer directly
WideRatings == {-120, 0, 7, 1500, 1549, 2900}

Responses ==
    {Response(k, 0) : k \in ResponseKinds \ {"ok"}} \cup {Response("ok", r) : r \in Ratings}

\* the rating the API reports on day t at the nominal (first) run of the day
NominalRating(t) == 1400 + 9 * (t % 7)

\* ---------------------------------------------------------------------
\* Histories a run may find on disk
\* ---------------------------------------------------------------------
RECURSIVE SeqsUpTo(_, _)
SeqsUpTo(S, n) ==
    IF n = 0 THEN {<<>>}
    ELSE LET shorter == SeqsUpTo(S, n - 1)
         IN shorter \cup {Append(q, e) : q \in {x \in shorter : Len(x) = n - 1}, e \in S}

FileEntry(t, r) == Entry(strftime(t), r, t)

\* entries around the edges of the retention window of InitDay
EdgeDays == {InitDay - RETENTION_DAYS - 1, InitDay - RETENTION_DAYS, InitDay, InitDay + 1}
EdgeEntries == {FileEntry(t, r) : t \in EdgeDays, r \in Ratings}
SmallHistories == SeqsUpTo(EdgeEntries, MaxSmall)

\* one entry a day from day a on, n entries, ascending or descending
Dense(a, n, asc) ==
    [i \in 1..n |->
        LET t == IF asc THEN a + i - 1 ELSE a + n - i
        IN FileEntry(t, 1450 + 10 * (t % 4))]

DenseHistories ==
    {Dense(a, n, asc) :
        a \in (InitDay - RETENTION_DAYS - 1)..(InitDay - RETENTION_DAYS + 1),
        n \in {MAX_ENTRIES - 1, MAX_ENTRIES + 1, MAX_ENTRIES + 2},
        asc \in BOOLEAN}

\* a full history of dates after every run of the model
FutureHistory == Dense(MaxDay + 1, MAX_ENTRIES, TRUE)

InitHistories ==
    SmallHistories \cup DenseHistories \cup {FutureHistory}
    \cup {d \o <<FileEntry(t, 1525)>> : d \in DenseHistories, t \in EdgeDays}

InitFiles == {None} \cup {Some(h) : h \in InitHistories}

\* histories handed to the renderer directly: ascending dates, wide ratings
ChartHistories ==
    {[i \in 1..Len(rs) |-> FileEntry(InitDay - Len(rs) + i, rs[i])] :
        rs \in SeqsUpTo(WideRatings, MaxSmall + 1)}

UnitHistories == InitHistories \cup ChartHistories

\* the chart and the README an earlier run left beside its history file
StaleHistory == <<FileEntry(0, 1400)>>
StaleSvg == create_svg_graph(StaleHistory).svg
StaleReadme == update_readme(Some(1400), StaleHistory, 0)

\* ---------------------------------------------------------------------
\* State
\* ---------------------------------------------------------------------
VARIABLES
    pc,         \* position in main (or in a direct call of one function)
    now,        \* day ordinal on the clock
    resp,       \* the response the last fetch received: None before the fetch
    rating,     \* current_rating: None or Some(rating)
    history,    \* main's local variable history
    arg,        \* the history last passed to add_today_rating
    histFile,   \* rating_history.json: None (absent) or Some(array)
    svgFile,    \* rating_trend.svg: None or Some(chart)
    readme,     \* README.md: None or Some(document)
    graphOk,    \* return value of create_svg_graph: None before the call
    out,        \* what the run printed, as tags
    writes,     \* the files written in this run, in order
    file0,      \* the three files as they were when the run started
    svg0,
    readme0,
    cleanDay,   \* clock reading of cleanup_old_data (line 160): None before it
    today,      \* clock reading behind 'today' (line 37): None before it
    cutDay,     \* clock reading behind the cutoff (line 53): None before it
    runs,       \* runs started
    lastOk,     \* the last completed successful run: None or Some([today, cut, rating])
    fetched,    \* every successful fetch so far: day of 'today' -> last rating
    deviations  \* departures from the nominal schedule so far

vars == <<pc, now, resp, rating, history, arg, histFile, svgFile, readme, graphOk, out,
          writes, file0, svg0, readme0, cleanDay, today, cutDay, runs, lastOk, fetched,
          deviations>>

files == <<histFile, svgFile, readme>>

\* fetched as a set of [t, r] with one record per day
Record(f, t, r) == {e \in f : e.t # t} \cup {[t |-> t, r |-> r]}

InitRest ==
    /\ resp = None
    /\ rating = None
    /\ arg = <<>>
    /\ graphOk = None
    /\ out = <<>>
    /\ writes = <<>>
    /\ file0 = histFile
    /\ svg0 = svgFile
    /\ readme0 = readme
    /\ cleanDay = None
    /\ today = None
    /\ cutDay = None
    /\ runs = 1
    /\ lastOk = None
    /\ fetched = {}
    /\ deviations = 0

\* main() started on InitDay with whatever an earlier run left on disk
InitMain ==
    /\ pc = "start"
    /\ now = InitDay
    /\ histFile \in InitFiles
    /\ svgFile = IF IsNone(histFile) THEN None ELSE StaleSvg
    /\ readme = IF IsNone(histFile) THEN None ELSE StaleReadme
    /\ history = <<>>
    /\ InitRest

\* add_today_rating, create_svg_graph or update_readme called directly
InitUnit ==
    /\ pc = "unit"
    /\ now = InitDay
    /\ histFile = None
    /\ svgFile = None
    /\ readme = None
    /\ history \in UnitHistories
    /\ InitRest

Init == InitMain \/ InitUnit

\* ---------------------------------------------------------------------
\* main(), one action per stage
\* ---------------------------------------------------------------------
MainPcs == {"start", "cleanup", "merge", "save", "render", "report", "done"}

\* lines 173-180: fetch; a None rating ends the run
Fetch(rsp) ==
    /\ pc = "start"
    /\ resp' = Some(rsp)
    /\ rating' = fetch_current_rating(rsp)
    /\ IF IsNone(rating')
       THEN /\ pc' = "done"
            /\ out' = out \o <<"fetching">> \o fetch_prints(rsp) \o <<"could_not_fetch">>
       ELSE /\ pc' = "cleanup"
            /\ out' = out \o <<"fetching", "current_rating">>
    /\ UNCHANGED <<cleanDay, now, history, arg, histFile, svgFile, readme, graphOk, writes,
                   file0, svg0, readme0, today, cutDay, runs, lastOk, fetched, deviations>>

\* lines 182-183: history = cleanup_old_data()
Cleanup ==
    /\ pc = "cleanup"
    /\ \E c \in {cleanup_old_data(histFile, now)} :
          /\ history' = c.ret
          /\ histFile' = c.file
          /\ writes' = IF c.wrote THEN Append(writes, "history") ELSE writes
          /\ out' = out \o (IF c.wrote THEN <<"cleaned_up">> ELSE <<>>) \o <<"existing">>
    /\ cleanDay' = Some(now)
    /\ pc' = "merge"
    /\ UNCHANGED <<resp, now, rating, arg, svgFile, readme, graphOk, file0, svg0, readme0,
                   today, cutDay, runs, lastOk, fetched, deviations>>

\* line 185: history = add_today_rating(history, current_rating); midnight
\* may pass between its clock readings
AddToday(tUpd, tCut) ==
    /\ pc = "merge"
    /\ now <= tUpd /\ tUpd <= tCut /\ tCut <= MaxDay
    /\ history' = add_today_rating(history, rating, now, tUpd, tCut)
    /\ arg' = history
    /\ today' = Some(now)
    /\ cutDay' = Some(tCut)
    /\ now' = tCut
    /\ fetched' = Record(fetched, now, Val(rating))
    /\ pc' = "save"
    /\ UNCHANGED <<cleanDay, resp, rating, histFile, svgFile, readme, graphOk, out, writes,
                   file0, svg0, readme0, runs, lastOk, deviations>>

\* lines 186-188: save_history(history)
SaveHistory ==
    /\ pc = "save"
    /\ histFile' = save_history(history)
    /\ writes' = Append(writes, "history")
    /\ out' = Append(out, "total")
    /\ pc' = "render"
    /\ UNCHANGED <<cleanDay, resp, now, rating, history, arg, svgFile, readme, graphOk,
                   file0, svg0, readme0, today, cutDay, runs, lastOk, fetched, deviations>>

ThisRun == Some([today |-> Val(today), cut |-> Val(cutDay), rating |-> Val(rating)])

\* line 190 and, on False, lines 202-203
CreateSvg ==
    /\ pc = "render"
    /\ \E g \in {create_svg_graph(history)} :
          /\ graphOk' = Some(g.ok)
          /\ IF g.ok
             THEN /\ svgFile' = g.svg
                  /\ writes' = Append(writes, "svg")
                  /\ pc' = "report"
                  /\ UNCHANGED <<out, lastOk>>
             ELSE /\ out' = Append(out, "could_not_create_graph")
                  /\ pc' = "done"
                  /\ lastOk' = ThisRun
                  /\ UNCHANGED <<svgFile, writes>>
    /\ UNCHANGED <<cleanDay, resp, now, rating, history, arg, histFile, readme,
                   file0, svg0, readme0, today, cutDay, runs, fetched, deviations>>

\* lines 191-201: update_readme(current_rating, history) and the summary
UpdateReadme ==
    /\ pc = "report"
    /\ \E d \in {update_readme(rating, history, now)} :
          IF IsNone(d)
          THEN UNCHANGED <<readme, writes>>
          ELSE /\ readme' = d
               /\ writes' = Append(writes, "readme")
    /\ out' = out \o <<"graph_created", "files_updated">>
                  \o (IF Len(history) > 1 THEN <<"stats">> ELSE <<"run_daily">>)
    /\ lastOk' = ThisRun
    /\ pc' = "done"
    /\ UNCHANGED <<cleanDay, resp, now, rating, history, arg, histFile, svgFile, graphOk,
                   file0, svg0, readme0, today, cutDay, runs, fetched, deviations>>

\* the scheduler starts main() again
NextRun ==
    /\ pc = "done"
    /\ runs < MaxRuns
    /\ runs' = runs + 1
    /\ pc' = "start"
    /\ resp' = None
    /\ rating' = None
    /\ history' = <<>>
    /\ graphOk' = None
    /\ out' = <<>>
    /\ writes' = <<>>
    /\ file0' = histFile
    /\ svg0' = svgFile
    /\ readme0' = readme
    /\ cleanDay' = None
    /\ today' = None
    /\ cutDay' = None
    /\ UNCHANGED <<now, arg, histFile, svgFile, readme, lastOk, fetched, deviations>>

\* midnight passes
Tick ==
    /\ pc \in MainPcs
    /\ now < MaxDay
    /\ now' = now + 1
    /\ UNCHANGED <<cleanDay, resp, pc, rating, history, arg, histFile, svgFile, readme, graphOk, out,
                   writes, file0, svg0, readme0, today, cutDay, runs, lastOk, fetched,
                   deviations>>

\* ---------------------------------------------------------------------
\* The functions called directly
\* ---------------------------------------------------------------------
\* add_today_rating(history, r), and once more on its own result
UnitAddToday(r, tUpd, tCut) ==
    /\ pc \in {"unit", "unit_added"}
    /\ now <= tUpd /\ tUpd <= tCut /\ tCut <= MaxDay
    /\ history' = add_today_rating(history, r, now, tUpd, tCut)
    /\ arg' = history
    /\ rating' = r
    /\ today' = Some(now)
    /\ cutDay' = Some(tCut)
    /\ now' = tCut
    /\ lastOk' = IF pc = "unit_added" /\ ~IsNone(rating) THEN ThisRun ELSE None
    /\ pc' = IF pc = "unit" THEN "unit_added" ELSE "unit_added_again"
    /\ UNCHANGED <<cleanDay, resp, histFile, svgFile, readme, graphOk, out, writes, file0, svg0,
                   readme0, runs, fetched, deviations>>

\* create_svg_graph(history)
UnitCreateSvg ==
    /\ pc = "unit"
    /\ \E g \in {create_svg_graph(history)} :
          /\ graphOk' = Some(g.ok)
          /\ IF g.ok
             THEN svgFile' = g.svg /\ writes' = Append(writes, "svg")
             ELSE UNCHANGED <<svgFile, writes>>
    /\ pc' = "unit_rendered"
    /\ UNCHANGED <<cleanDay, resp, now, rating, history, arg, histFile, readme, out, file0, svg0,
                   readme0, today, cutDay, runs, lastOk, fetched, deviations>>

\* update_readme(r, history)
UnitUpdateReadme(r) ==
    /\ pc = "unit"
    /\ rating' = Some(r)
    /\ \E d \in {update_readme(Some(r), history, now)} :
          IF IsNone(d)
          THEN UNCHANGED <<readme, writes>>
          ELSE readme' = d /\ writes' = Append(writes, "readme")
    /\ pc' = "unit_reported"
    /\ UNCHANGED <<cleanDay, resp, now, history, arg, histFile, svgFile, graphOk, out, file0, svg0,
                   readme0, today, cutDay, runs, lastOk, fetched, deviations>>

\* ---------------------------------------------------------------------
\* Runs across days, from an absent history file
\* ---------------------------------------------------------------------
\* main() as a whole on one response; midnight passes just before the
\* cross-th clock reading of the run (1 cleanup, 2 today, 3 updated,
\* 4 cutoff, 5 README), or not at all (cross = 0)
ReadAt(i, cross) == IF cross # 0 /\ i >= cross THEN now + 1 ELSE now

main(file, svg, doc, rsp, cross) ==
    LET r == fetch_current_rating(rsp)
    IN IF IsNone(r)
       THEN [rating |-> r, history |-> <<>>, arg |-> <<>>, histFile |-> file,
             svgFile |-> svg, readme |-> doc, graphOk |-> None, writes |-> <<>>,
             out |-> <<"fetching">> \o fetch_prints(rsp) \o <<"could_not_fetch">>]
       ELSE LET c == cleanup_old_data(file, ReadAt(1, cross))
                h == add_today_rating(c.ret, r, ReadAt(2, cross), ReadAt(3, cross),
                                      ReadAt(4, cross))
                g == create_svg_graph(h)
                d == IF g.ok THEN update_readme(r, h, ReadAt(5, cross)) ELSE None
            IN [rating |-> r, history |-> h, arg |-> c.ret,
                histFile |-> save_history(h),
                svgFile |-> IF g.ok THEN g.svg ELSE svg,
                readme |-> IF IsNone(d) THEN doc ELSE d,
                graphOk |-> Some(g.ok),
                writes |-> (IF c.wrote THEN <<"history">> ELSE <<>>) \o <<"history">>
                           \o (IF g.ok THEN <<"svg">> ELSE <<>>)
                           \o (IF IsNone(d) THEN <<>> ELSE <<"readme">>),
                out |-> <<"fetching", "current_rating">>
                        \o (IF c.wrote THEN <<"cleaned_up">> ELSE <<>>)
                        \o <<"existing", "total">>
                        \o (IF g.ok
                            THEN <<"graph_created", "files_updated">>
                                 \o (IF Len(h) > 1 THEN <<"stats">> ELSE <<"run_daily">>)
                            ELSE <<"could_not_create_graph">>)]

\* what a run costs against the nominal schedule: a midnight inside the
\* run, or a rating other than the day's nominal one
RunCost(rsp, cross) ==
    (IF cross # 0 THEN 1 ELSE 0)
    + (IF rsp.kind = "ok" /\ rsp.rating # NominalRating(now) THEN 1 ELSE 0)

\* a departure happens on one of DeviationDays, within the budget
Allowed(cost) ==
    /\ deviations + cost <= MaxDeviations
    /\ cost > 0 => now \in DeviationDays

InitAcross ==
    /\ pc = "idle"
    /\ now = AcrossStart
    /\ histFile = None
    /\ svgFile = None
    /\ readme = None
    /\ history = <<>>
    /\ InitRest

\* one whole run of main()
RunMain(rsp, cross) ==
    /\ pc = "idle"
    /\ Allowed(RunCost(rsp, cross))
    /\ ReadAt(5, cross) <= MaxDay
    /\ rsp.kind # "ok" => cross = 0
    /\ \E m \in {main(histFile, svgFile, readme, rsp, cross)} :
          /\ resp' = Some(rsp)
          /\ rating' = m.rating
          /\ history' = m.history
          /\ arg' = m.arg
          /\ histFile' = m.histFile
          /\ svgFile' = m.svgFile
          /\ readme' = m.readme
          /\ graphOk' = m.graphOk
          /\ writes' = m.writes
          /\ out' = m.out
          /\ IF IsNone(m.rating)
             THEN UNCHANGED <<cleanDay, today, cutDay, lastOk, fetched>>
             ELSE /\ cleanDay' = Some(ReadAt(1, cross))
                  /\ today' = Some(ReadAt(2, cross))
                  /\ cutDay' = Some(ReadAt(4, cross))
                  /\ lastOk' = Some([today |-> ReadAt(2, cross), cut |-> ReadAt(4, cross),
                                     rating |-> Val(m.rating)])
                  /\ fetched' = Record(fetched, ReadAt(2, cross), Val(m.rating))
    /\ file0' = histFile
    /\ svg0' = svgFile
    /\ readme0' = readme
    /\ now' = ReadAt(5, cross)
    /\ deviations' = deviations + RunCost(rsp, cross)
    /\ runs' = runs
    /\ pc' = "idle"

\* the next day begins; a day left without a successful run is a
\* departure from the nominal schedule
NextDay ==
    /\ pc = "idle"
    /\ now < MaxDay
    /\ LET cost == IF \E e \in fetched : e.t = now THEN 0 ELSE 1
       IN /\ Allowed(cost)
          /\ deviations' = deviations + cost
    /\ now' = now + 1
    /\ UNCHANGED <<cleanDay, pc, resp, rating, history, arg, histFile, svgFile, readme, graphOk, out,
                   writes, file0, svg0, readme0, today, cutDay, runs, lastOk, fetched>>

AcrossResponses ==
    {Response("network_error", 0), Response("no_last", 0), Response("ok", NominalRating(now))}
    \cup {Response("ok", r) : r \in Ratings}

NextAcross ==
    \/ \E rsp \in AcrossResponses, cross \in 0..5 : RunMain(rsp, cross)
    \/ NextDay

SpecAcross == InitAcross /\ [][NextAcross]_vars

Next ==
    \/ \E rsp \in Responses : Fetch(rsp)
    \/ Cleanup
    \/ \E tUpd, tCut \in now..(now + 1) : AddToday(tUpd, tCut)
    \/ SaveHistory
    \/ CreateSvg
    \/ UpdateReadme
    \/ NextRun
    \/ Tick
    \/ \E r \in {None} \cup {Some(x) : x \in Ratings}, tUpd, tCut \in now..(now + 1) :
          UnitAddToday(r, tUpd, tCut)
    \/ UnitCreateSvg
    \/ \E r \in Ratings : UnitUpdateReadme(r)

Spec == Init /\ [][Next]_vars

\* ---------------------------------------------------------------------
\* Vocabulary of the properties
\* ---------------------------------------------------------------------
\* the calendar read backwards: the day ordinal of a date string
RECURSIVE DaysBefore(_, _)
DaysBefore(y, m) ==
    IF y = 2023 /\ m = 11 THEN 0
    ELSE IF m = 1 THEN DaysBefore(y - 1, 12) + DaysInMonth(y - 1, 12)
    ELSE DaysBefore(y, m - 1) + DaysInMonth(y, m - 1)

DayOf(d) == DaysBefore(d[1], d[2]) + d[3] - 1

Persisted == load_history(histFile)
Before == load_history(file0)
FetchOk == ~IsNone(resp) /\ Val(resp).kind = "ok"
RanToEnd == pc = "done" /\ FetchOk

Count(h, e) == Cardinality({i \in 1..Len(h) : h[i] = e})
CountDate(h, d) == Cardinality({i \in 1..Len(h) : h[i].date = d})
DatesOf(h) == {h[i].date : i \in 1..Len(h)}
UniqueDates(h) == \A i, j \in 1..Len(h) : i # j => h[i].date # h[j].date
Ascending(h) == \A i \in 1..(Len(h) - 1) : DayOf(h[i].date) <= DayOf(h[i + 1].date)
IsPrefix(a, b) == Len(a) <= Len(b) /\ \A i \in 1..Len(a) : a[i] = b[i]
Least(a, b) == IF a < b THEN a ELSE b
Most(a, b) == IF a > b THEN a ELSE b

\* ---------------------------------------------------------------------
\* C1. Retention window: after a run of main whose fetch succeeded, every
\* entry of the persisted history is dated no more than 30 days before the
\* run date (the date on the clock when the run prunes, which is no
\* earlier than any other date the run reads).
\* ---------------------------------------------------------------------
RetentionWindow ==
    RanToEnd =>
        \A i \in 1..Len(Persisted) :
            /\ DayOf(Persisted[i].date) >= Val(cutDay) - 30
            /\ DayOf(Persisted[i].date) >= Val(cleanDay) - 30

\* a successful run that found entries older than the window on disk
RetentionWindowWitness ==
    /\ RanToEnd
    /\ Len(Persisted) >= 2
    /\ \E i \in 1..Len(Before) : DayOf(Before[i].date) < Val(cutDay) - 30
    /\ \E i \in 1..Len(Persisted) : DayOf(Persisted[i].date) = Val(cutDay) - 30

\* ---------------------------------------------------------------------
\* C2. Size cap: after a successful run the persisted history has at most
\* 30 entries: as many as the window holds, up to 30; every kept entry
\* other than today's comes from the file, and an entry of the window that
\* was dropped is dated no later than any entry that was kept.
\* ---------------------------------------------------------------------
SizeCap ==
    RanToEnd =>
        \A td \in {strftime(Val(today))} :
        \A inWindow \in {{i \in 1..Len(Before) :
                            /\ Before[i].date # td
                            /\ DayOf(Before[i].date) >= Val(cutDay) - 30}} :
        \A first \in {IF Persisted = <<>> THEN 0 ELSE DayOf(Persisted[1].date)} :
            /\ Len(Persisted) <= 30
            /\ Len(Persisted)
                 = Least(30, Cardinality(inWindow) + Most(1, CountDate(Before, td)))
            /\ \A j \in 1..Len(Persisted) :
                  /\ DayOf(Persisted[j].date) >= first
                  /\ Persisted[j].date # td
                       => Count(Persisted, Persisted[j]) <= Count(Before, Persisted[j])
            /\ \A i \in inWindow :
                  Count(Persisted, Before[i]) < Count(Before, Before[i])
                     => DayOf(Before[i].date) <= first
            /\ CountDate(Persisted, td) < Most(1, CountDate(Before, td))
                  => Val(today) <= first

\* a successful run whose window held more than 30 entries, two of them
\* with the same date
SizeCapWitness ==
    /\ RanToEnd
    /\ Len(Persisted) = 30
    /\ Cardinality({i \in 1..Len(Before) : DayOf(Before[i].date) >= Val(cutDay) - 30}) > 31
    /\ ~UniqueDates(Persisted)

\* ---------------------------------------------------------------------
\* C3. Upsert by date: add_today_rating with a rating, on a history with
\* one entry per date and none dated after today, returns a history with
\* exactly one entry dated today, carrying the fetched rating; an entry
\* for today that was there is overwritten, not duplicated; and a second
\* successful run on the same day leaves the length and every date as
\* they were and changes no entry but today's.
\* ---------------------------------------------------------------------
AfterAdd == pc \in {"save", "unit_added", "unit_added_again"} /\ ~IsNone(rating)

UpsertPre ==
    /\ UniqueDates(arg)
    /\ \A i \in 1..Len(arg) : DayOf(arg[i].date) <= Val(today)

\* the previous successful run and this one read the same date throughout
SameDayRerun ==
    /\ ~IsNone(lastOk)
    /\ Val(lastOk).today = Val(today)
    /\ Val(lastOk).cut = Val(today)
    /\ Val(cutDay) = Val(today)

UpsertByDate ==
    (AfterAdd /\ UpsertPre) =>
        \A td \in {strftime(Val(today))} :
            /\ CountDate(history, td) = 1
            /\ \A i \in 1..Len(history) :
                  history[i].date = td => history[i].rating = Val(rating)
            /\ td \in DatesOf(arg) => Len(history) <= Len(arg)
            /\ SameDayRerun =>
                  /\ Len(history) = Len(arg)
                  /\ \A i \in 1..Len(arg) :
                        /\ history[i].date = arg[i].date
                        /\ arg[i].date # td => history[i] = arg[i]

\* a second successful run on the same day, on a full history, with
\* another rating than the first
UpsertByDateWitness ==
    /\ AfterAdd
    /\ UpsertPre
    /\ SameDayRerun
    /\ Len(arg) = 30
    /\ Val(lastOk).rating # Val(rating)

\* ---------------------------------------------------------------------
\* C4. Date order: after a successful run the persisted history is in
\* ascending date order, whatever the order of the file before.
\* ---------------------------------------------------------------------
DateOrder == RanToEnd => Ascending(Persisted)

\* a successful run on a file that was not in date order and was capped
DateOrderWitness ==
    /\ RanToEnd
    /\ ~Ascending(Before)
    /\ Len(Before) > 30
    /\ Len(Persisted) = 30

\* ---------------------------------------------------------------------
\* C5. A failed fetch is a skip: whatever the failure (network error,
\* undecodable payload, missing field), main ends at once and the three
\* files are as they were; nothing is written, so old entries stay.
\* ---------------------------------------------------------------------
FetchFailureSkips ==
    (pc \in MainPcs /\ ~IsNone(resp) /\ Val(resp).kind # "ok") =>
        /\ pc = "done"
        /\ writes = <<>>
        /\ histFile = file0
        /\ svgFile = svg0
        /\ readme = readme0

\* a run whose payload lacked the rating, on a file holding an entry a
\* successful run would have pruned
FetchFailureSkipsWitness ==
    /\ pc = "done"
    /\ ~IsNone(resp)
    /\ Val(resp).kind = "no_rating"
    /\ ~IsNone(svgFile)
    /\ \E i \in 1..Len(Persisted) : DayOf(Persisted[i].date) < now - 30

\* ---------------------------------------------------------------------
\* C6. Stage ordering.  As claimed: the files are written in the order
\* history, chart, README, each at most once, and none before the fetch
\* succeeded.
\* ---------------------------------------------------------------------
StagesWriteOnce ==
    pc \in MainPcs =>
        /\ writes # <<>> => FetchOk
        /\ IsPrefix(writes, <<"history", "svg", "readme">>)

\* C6 as amended: no file is written before the fetch succeeded; the
\* history file is written once by main after the merge, and once more
\* before that by cleanup_old_data exactly when the file held entries
\* older than 30 days; every write of the history file comes before the
\* chart, the chart before the README, and a run that writes the README
\* has written the chart.
StageOrder ==
    pc \in MainPcs =>
        \A stale \in {~IsNone(cleanDay) /\ \E i \in 1..Len(Before) :
                          DayOf(Before[i].date) < Val(cleanDay) - 30} :
        \A plan \in {IF stale THEN <<"history", "history", "svg", "readme">>
                              ELSE <<"history", "svg", "readme">>} :
            /\ writes # <<>> => FetchOk
            /\ IsPrefix(writes, plan)
            /\ pc \in {"merge", "save"} => (Len(writes) = 1 <=> stale)
            /\ RanToEnd => writes = plan

\* a run that wrote the history file twice
StageOrderWitness ==
    /\ RanToEnd
    /\ writes = <<"history", "history", "svg", "readme">>

\* ---------------------------------------------------------------------
\* C7. Report content: the README written by a run shows the rating of
\* the last entry of the persisted history, which has the greatest date,
\* and the number of its entries; update_readme on an empty history
\* writes nothing.
\* ---------------------------------------------------------------------
ReportContent ==
    /\ (RanToEnd /\ \E k \in 1..Len(writes) : writes[k] = "readme") =>
          /\ Val(readme).current = Persisted[Len(Persisted)].rating
          /\ Val(readme).days_tracked = Len(Persisted)
          /\ \A i \in 1..Len(Persisted) :
                DayOf(Persisted[i].date) <= DayOf(Persisted[Len(Persisted)].date)
    /\ pc = "unit_reported" =>
          IF history = <<>>
          THEN readme = readme0 /\ writes = <<>>
          ELSE /\ writes = <<"readme">>
               /\ Val(readme).current = history[Len(history)].rating
               /\ Val(readme).days_tracked = Len(history)

\* a run whose last entry is not the one it fetched (the file held a
\* later date)
ReportContentWitness ==
    /\ RanToEnd
    /\ \E k \in 1..Len(writes) : writes[k] = "readme"
    /\ Len(Persisted) >= 2
    /\ Persisted[Len(Persisted)].rating # Val(rating)
    /\ Val(readme).current # Val(rating)

\* ---------------------------------------------------------------------
\* C8. Chart coordinates: for a non-empty history the rating range the
\* renderer divides by is at least 100, every point has y in [60, 440], a
\* higher rating is never drawn lower (larger y) than a smaller one, and
\* with two or more entries x is non-decreasing from 60 to 940.
\* ---------------------------------------------------------------------
Rendered == pc \in {"unit_rendered", "report", "done"} /\ graphOk = Some(TRUE)

ChartCoordinates ==
    Rendered =>
        \A rs \in {RatingsOf(history)} :
        \A pts \in {Val(svgFile).points} :
            /\ rating_range(rs) >= 100
            /\ Len(pts) = Len(rs)
            /\ \A i \in 1..Len(pts) : pts[i].y >= 60 /\ pts[i].y <= 440
            /\ \A i, j \in 1..Len(pts) : rs[i] > rs[j] => pts[i].y <= pts[j].y
            /\ Len(pts) >= 2 =>
                  /\ pts[1].x = 60
                  /\ pts[Len(pts)].x = 940
                  /\ \A i \in 1..(Len(pts) - 1) : pts[i].x <= pts[i + 1].x

\* three equal ratings rendered
ChartCoordinatesWitness ==
    /\ pc = "unit_rendered"
    /\ graphOk = Some(TRUE)
    /\ Len(history) = 3
    /\ \A i \in 1..Len(history) : history[i].rating = history[1].rating

\* ---------------------------------------------------------------------
\* C10. A successful fetch produces all outputs: the history handed to
\* the renderer is never empty, create_svg_graph returns True, the run
\* writes the three files and never prints 'Could not create graph';
\* create_svg_graph returns False, writing nothing, only for an empty
\* history.
\* ---------------------------------------------------------------------
AllOutputs ==
    /\ (pc \in {"save", "render", "report", "done"} /\ FetchOk) => history # <<>>
    /\ RanToEnd =>
          /\ graphOk = Some(TRUE)
          /\ \A f \in {"history", "svg", "readme"} : \E k \in 1..Len(writes) : writes[k] = f
          /\ \A k \in 1..Len(out) : out[k] # "could_not_create_graph"
          /\ histFile = Some(history)
          /\ ~IsNone(svgFile) /\ Val(svgFile).tracked = Len(history)
          /\ ~IsNone(readme) /\ Val(readme).days_tracked = Len(history)
    /\ pc = "unit_rendered" =>
          /\ graphOk = Some(FALSE) <=> history = <<>>
          /\ graphOk = Some(FALSE) => svgFile = svg0 /\ writes = <<>>

\* a successful run whose own entry did not survive the cap (the file
\* held 30 later dates): the outputs are written all the same
AllOutputsWitness ==
    /\ RanToEnd
    /\ CountDate(Persisted, strftime(Val(today))) = 0
    /\ writes = <<"history", "svg", "readme">>

\* ---------------------------------------------------------------------
\* C9. Across runs from an absent history file: the persisted history has
\* one entry per date; its dates are the up to 30 most recent dates of a
\* successful fetch that lie within 30 days of the last successful run
\* (of the date on the clock when that run pruned); each entry carries the
\* rating last fetched on its date; the last entry is the one of the most
\* recent successful run, and the README and the chart show its rating.
\* ---------------------------------------------------------------------
AcrossRuns ==
    pc = "idle" =>
        IF fetched = {} THEN IsNone(histFile)
        ELSE \A last \in {Val(lastOk)} :
             \A window \in {{e \in fetched : e.t >= last.cut - 30}} :
             \A top \in {{e \in window : Cardinality({f \in window : f.t > e.t}) < 30}} :
                /\ UniqueDates(Persisted)
                /\ Len(Persisted) = Cardinality(top)
                /\ {[t |-> DayOf(Persisted[i].date), r |-> Persisted[i].rating] :
                        i \in 1..Len(Persisted)} = top
                /\ Persisted[Len(Persisted)].date = strftime(last.today)
                /\ Persisted[Len(Persisted)].rating = last.rating
                /\ Val(readme).current = last.rating
                /\ Val(svgFile).stats.current = last.rating

\* 30 entries on disk after more successful days than that, one day
\* skipped, and a day whose rating was fetched twice
AcrossRunsWitness ==
    /\ pc = "idle"
    /\ Len(Persisted) = 30
    /\ Cardinality(fetched) > 31
    /\ \E i \in 1..(Len(Persisted) - 1) :
          DayOf(Persisted[i + 1].date) > DayOf(Persisted[i].date) + 1
    /\ \E i \in 1..Len(Persisted) :
          Persisted[i].rating # NominalRating(DayOf(Persisted[i].date))

====
